---- MODULE Spec2Model ----
(***************************************************************************)
(* Amazon reviews ETL pipeline: the Flask control API (api.py), the        *)
(* orchestrator ETLPipeline.run (etl_runner.py), the PostgreSQL tables     *)
(* behind DatabaseManager (db_manager.py) and the two provider calls of    *)
(* SerpAPIClient (serpapi_client.py).                                      *)
(*                                                                         *)
(* Every POST /api/process that is accepted starts one background thread   *)
(* (run_pipeline).  The threads share processing_status and the two        *)
(* tables; each SQL statement is one atomic step (autocommit connection),  *)
(* and the steps of different threads interleave freely.  Any statement    *)
(* sent to the database may raise (db_ok = FALSE in the action that sends  *)
(* it).                                                                    *)
(***************************************************************************)
EXTENDS Integers, Sequences, FiniteSets, Bags, TLC

\* ---------------------------------------------------------------- bounds
MaxRuns == 2            \* background threads that may be started in one behaviour
MaxItems == 2           \* organic_results of one SerpAPI answer

\* ------------------------------------------------------------ value sets
NULL == "NULL"                          \* Python None / SQL NULL
Urls == {"A", "A2", "B"}                \* product URLs holding /dp/<ASIN>; A and A2 hold the same ASIN
BadUrl == "X"                           \* a URL extract_asin_from_url rejects
Snippets == {NULL, "", "t1", "t2"}      \* snippet of one organic result
Titles == {"h1"}                        \* title of one organic result
ProductTypes == {"c1"}
Categories == {"c1", "c2"}              \* product_type values of the registry specification
Runs == 1..MaxRuns

RECURSIVE SeqsUpTo(_, _)
SeqsUpTo(S, n) ==
    IF n = 0 THEN {<<>>}
    ELSE LET shorter == SeqsUpTo(S, n - 1)
         IN  shorter \cup {Append(s, x) : s \in {q \in shorter : Len(q) = n - 1}, x \in S}

\* Python truthiness of a str-or-None value
Falsy(x) == x \in {NULL, ""}

\* ------------------------------------------------------------- variables
VARIABLES
    processing_status,  \* api.py: the global dict {is_processing, message}
    amazon_links,       \* table amazon_links, in id order
    amazon_reviews,     \* table amazon_reviews: a bag of rows (no constraint makes it a set)
    thread              \* per run_pipeline thread: position, locals of run()

vars == <<processing_status, amazon_links, amazon_reviews, thread>>

\* ----------------------------------------------------------------- api.py
\* extract_asin_from_url: the ASIN of /dp/<ASIN>, None when the URL has none
extract_asin_from_url(url) ==
    IF url \in {"A", "A2"} THEN "ASINA" ELSE IF url = "B" THEN "ASINB" ELSE NULL

\* ---------------------------------------------------------- db_manager.py
\* insert_link: INSERT ... ON CONFLICT (url) DO UPDATE SET asin, product_type
RowOfUrl(table, url) == CHOOSE n \in 1..Len(table) : table[n].url = url

\* mutant: ON CONFLICT (url) DO NOTHING
insert_link_do_nothing(table, asin, url, product_type) ==
    IF \E n \in 1..Len(table) : table[n].url = url
    THEN table
    ELSE Append(table, [asin |-> asin, url |-> url, product_type |-> product_type,
                        product_name |-> NULL])

insert_link(table, asin, url, product_type) ==
    IF \E n \in 1..Len(table) : table[n].url = url
    THEN [table EXCEPT ![RowOfUrl(table, url)] =
              [@ EXCEPT !.asin = asin, !.product_type = product_type]]
    ELSE Append(table, [asin |-> asin, url |-> url, product_type |-> product_type,
                        product_name |-> NULL])

\* update_product_metadata_for_url: UPDATE amazon_links SET product_name WHERE url
update_product_metadata_for_url(table, url, product_name) ==
    [n \in 1..Len(table) |->
        IF table[n].url = url THEN [table[n] EXCEPT !.product_name = product_name]
        ELSE table[n]]

\* SELECT 1 FROM amazon_reviews WHERE product_url = %s LIMIT 1
HasReviews(table, url) == \E row \in BagToSet(table) : row.product_url = url

\* SELECT 1 FROM amazon_reviews WHERE product_url = %s AND review_text = %s
ReviewExists(table, url, text) ==
    \E row \in BagToSet(table) : row.product_url = url /\ row.review_text = text

\* the row of INSERT INTO amazon_reviews (...) VALUES (...)
ReviewRow(asin, product_url, product_name, price, avg_star_rating, r) ==
    [asin |-> asin, product_url |-> product_url, product_name |-> product_name,
     price |-> price, avg_star_rating |-> avg_star_rating,
     review_title |-> r.review_title, review_text |-> r.review_text,
     rating |-> r.rating, review_date |-> r.review_date, verified |-> r.verified]

\* mutant: COUNT(asin) in place of COUNT(DISTINCT asin)
get_processing_stats_counts_rows(links, reviews) ==
    [total_links     |-> Len(links),
     processed_asins |-> BagCardinality(reviews),
     pending_asins   |-> Cardinality({n \in 1..Len(links) :
                             ~HasReviews(reviews, links[n].url)}),
     total_reviews   |-> BagCardinality(reviews)]

\* get_processing_stats: four COUNT statements
get_processing_stats(links, reviews) ==
    [total_links     |-> Len(links),
     processed_asins |-> Cardinality({row.asin : row \in
                             {x \in BagToSet(reviews) : x.asin # NULL}}),
     pending_asins   |-> Cardinality({n \in 1..Len(links) :
                             ~HasReviews(reviews, links[n].url)}),
     total_reviews   |-> BagCardinality(reviews)]

\* ------------------------------------------------------ serpapi_client.py
\* what the Amazon product page request can do
MetaPages ==
    { [kind |-> "exception", title |-> NULL, price |-> NULL, avg |-> NULL],
      [kind |-> "non200",    title |-> NULL, price |-> NULL, avg |-> NULL],
      [kind |-> "ok",        title |-> "N1", price |-> "P1", avg |-> "4.5"] }

\* get_product_metadata: all-null on a non-200 answer or any exception
get_product_metadata(page) ==
    IF page.kind = "ok"
    THEN [title |-> page.title, price |-> page.price, avg_rating |-> page.avg]
    ELSE [title |-> NULL, price |-> NULL, avg_rating |-> NULL]

\* what GoogleSearch(params).get_dict() can do
SerpItems == [title : Titles, snippet : Snippets]
SerpResults ==
    { [kind |-> "exception", organic_results |-> <<>>],
      [kind |-> "error",     organic_results |-> <<>>] }
    \cup { [kind |-> "ok", organic_results |-> s] : s \in SeqsUpTo(SerpItems, MaxItems) }

\* the naive "X star" detection in the snippet
RatingGuess(snippet) == IF snippet = "t1" THEN "5" ELSE NULL

\* the loop over organic_results: items without a snippet are dropped
RECURSIVE ReviewsOf(_)
ReviewsOf(items) ==
    IF items = <<>> THEN <<>>
    ELSE LET item == Head(items)
         IN  IF Falsy(item.snippet) THEN ReviewsOf(Tail(items))
             ELSE <<[review_title |-> item.title, review_text |-> item.snippet,
                     rating |-> RatingGuess(item.snippet), review_date |-> NULL,
                     verified |-> FALSE]>> \o ReviewsOf(Tail(items))

\* get_reviews: [] on a SerpApi error or any exception (every URL of the
\* registry holds /dp/<ASIN>, so the ASIN is always found)
get_reviews(result) ==
    IF result.kind = "ok" THEN ReviewsOf(result.organic_results) ELSE <<>>

\* ------------------------------------------------------------------ Init
IdleThread ==
    [pc |-> "idle", skip_existing |-> TRUE, links |-> <<>>, n |-> 1,
     processed |-> 0, skipped |-> 0, errors |-> 0,
     product_name |-> NULL, price |-> NULL, avg_star_rating |-> NULL,
     review_snippets |-> <<>>, k |-> 1,
     \* bookkeeping of the run, read by the properties only (deduped: an
     \* insert_review_row of the link at hand, or just ended, found its key stored)
     fetched |-> {}, yielded |-> {}, overlapped |-> FALSE, purged |-> {},
     exc |-> FALSE, raised |-> FALSE, deduped |-> FALSE,
     final |-> [u \in Urls |-> 0]]

Init ==
    /\ processing_status = [is_processing |-> FALSE, message |-> ""]
    /\ amazon_links = <<>>
    /\ amazon_reviews = EmptyBag
    /\ thread = [r \in Runs |-> IdleThread]

Active(r) == thread[r].pc \notin {"idle", "done", "gone"}

\* ---------------------------------------------------- api.py: POST /links
RECURSIVE InsertLinks(_, _, _)
InsertLinks(table, urls, product_type) ==
    IF urls = <<>> THEN table
    ELSE LET url == Head(urls)
             asin == extract_asin_from_url(url)
         IN  IF Falsy(asin) THEN InsertLinks(table, Tail(urls), product_type)
             ELSE InsertLinks(insert_link(table, asin, url, product_type),
                              Tail(urls), product_type)

\* add_links: nothing is stored on an empty body (400) or when DatabaseManager()
\* raises; otherwise every URL with an ASIN is upserted
add_links(urls, product_type, db_ok) ==
    /\ amazon_links' =
          IF urls = <<>> \/ Falsy(product_type) \/ ~db_ok THEN amazon_links
          ELSE InsertLinks(amazon_links, urls, product_type)
    /\ UNCHANGED <<processing_status, amazon_reviews, thread>>

\* -------------------------------------------------- api.py: POST /process
\* the status code process_links answers with in the current state
process_links_status == IF processing_status["is_processing"] THEN 409 ELSE 202

\* mutant: a request with skip_existing = false purges before the check
process_links_purges_first(skip) ==
    IF processing_status["is_processing"]
    THEN /\ amazon_reviews' = IF skip THEN amazon_reviews ELSE EmptyBag
         /\ UNCHANGED <<processing_status, amazon_links, thread>>
    ELSE \E r \in Runs :
         /\ thread[r].pc = "idle"
         /\ \A q \in Runs : q < r => thread[q].pc # "idle"
         /\ LET overlap == \E q \in Runs : Active(q)
            IN  thread' = [q \in Runs |->
                    IF q = r THEN [thread[q] EXCEPT !.pc = "spawned",
                                                    !.skip_existing = skip,
                                                    !.overlapped = overlap]
                    ELSE IF Active(q) THEN [thread[q] EXCEPT !.overlapped = TRUE]
                    ELSE thread[q]]
         /\ UNCHANGED <<processing_status, amazon_links, amazon_reviews>>

\* process_links: the check of is_processing (409), else threading.Thread.start()
\* of run_pipeline (202); the thread has not run a statement yet
process_links(skip) ==
    IF processing_status["is_processing"]
    THEN UNCHANGED <<processing_status, amazon_links, amazon_reviews, thread>>
    ELSE \E r \in Runs :
         /\ thread[r].pc = "idle"
         /\ \A q \in Runs : q < r => thread[q].pc # "idle"
         /\ LET overlap == \E q \in Runs : Active(q)
            IN  thread' = [q \in Runs |->
                    IF q = r THEN [thread[q] EXCEPT !.pc = "spawned",
                                                    !.skip_existing = skip,
                                                    !.overlapped = overlap]
                    ELSE IF Active(q) THEN [thread[q] EXCEPT !.overlapped = TRUE]
                    ELSE thread[q]]
         /\ UNCHANGED <<processing_status, amazon_links, amazon_reviews>>

\* ------------------------------------------------- api.py: run_pipeline
\* lines 76-77
run_pipeline_start(r) ==
    /\ thread[r].pc = "spawned"
    /\ processing_status' = [is_processing |-> TRUE, message |-> "Processing started..."]
    /\ thread' = [thread EXCEPT ![r].pc = "construct", ![r].exc = FALSE]
    /\ UNCHANGED <<amazon_links, amazon_reviews>>

\* line 80: ETLPipeline() runs DatabaseManager(), whose statements may raise
ETLPipeline_init(r, dbs) ==
    /\ thread[r].pc = "construct"
    /\ \E db_ok \in dbs :
       thread' = [thread EXCEPT ![r].pc = IF db_ok THEN "get_links" ELSE "except",
                                ![r].exc = ~db_ok,
                                ![r].raised = ~db_ok]
    /\ UNCHANGED <<processing_status, amazon_links, amazon_reviews>>

\* line 82
run_pipeline_success(r) ==
    /\ thread[r].pc = "returned"
    /\ processing_status' = [processing_status EXCEPT
                                !.message = "Processing completed successfully"]
    /\ thread' = [thread EXCEPT ![r].pc = "finally", ![r].exc = FALSE]
    /\ UNCHANGED <<amazon_links, amazon_reviews>>

\* mutant: the register is released at the end of the try block only
run_pipeline_except_no_release(r) ==
    /\ thread[r].pc = "except"
    /\ processing_status' = [processing_status EXCEPT !.message = "Error"]
    /\ thread' = [thread EXCEPT ![r].pc = "done", ![r].exc = FALSE]
    /\ UNCHANGED <<amazon_links, amazon_reviews>>

\* lines 83-84
run_pipeline_except(r) ==
    /\ thread[r].pc = "except"
    /\ processing_status' = [processing_status EXCEPT !.message = "Error"]
    /\ thread' = [thread EXCEPT ![r].pc = "finally", ![r].exc = FALSE]
    /\ UNCHANGED <<amazon_links, amazon_reviews>>

\* what stays of a thread that has ended, for the properties that compare runs
Ended(t) ==
    [IdleThread EXCEPT !.pc = "done", !.skip_existing = t.skip_existing,
                       !.links = t.links, !.yielded = t.yielded, !.final = t.final,
                       !.overlapped = t.overlapped, !.raised = t.raised,
                       !.errors = IF t.errors > 0 THEN 1 ELSE 0]

\* lines 85-86; the thread ends, and what was kept of the thread started
\* before it is dropped
run_pipeline_finally(r) ==
    /\ thread[r].pc = "finally"
    /\ processing_status' = [processing_status EXCEPT !.is_processing = FALSE]
    /\ thread' = [q \in Runs |->
          IF q = r THEN Ended(thread[r])
          ELSE IF q = r - 1 /\ thread[q].pc = "done" THEN [IdleThread EXCEPT !.pc = "gone"]
          ELSE thread[q]]
    /\ UNCHANGED <<amazon_links, amazon_reviews>>

\* ------------------------------------------- etl_runner.py: ETLPipeline.run
\* number of amazon_reviews rows of one product URL
\* the (product_url, review_text) pairs of the rows of amazon_reviews
Keys(table) == {<<row.product_url, row.review_text>> : row \in BagToSet(table)}

ReviewCount(table, url) ==
    BagCardinality([row \in {x \in BagToSet(table) : x.product_url = url} |-> table[row]])

\* the locals of one loop iteration, dropped when the iteration ends
EndOfLink(t) ==
    [t EXCEPT !.n = t.n + 1, !.pc = "loop", !.exc = FALSE,
              !.product_name = NULL, !.price = NULL, !.avg_star_rating = NULL,
              !.review_snippets = <<>>, !.k = 1]

\* mutant: no try block around the handling of one link
LinkError_aborts(t) == [t EXCEPT !.pc = "except", !.exc = TRUE, !.raised = TRUE]

\* lines 96-98: except Exception inside the loop
LinkError(t) == [EndOfLink(t) EXCEPT !.errors = t.errors + 1, !.exc = TRUE]

\* a statement outside the loop raised: run() is left for run_pipeline's handler
RunError(t) == [t EXCEPT !.pc = "except", !.exc = TRUE, !.raised = TRUE]

\* the statement went through and the thread is at the next position
Goto(t, pc) == [t EXCEPT !.pc = pc, !.exc = FALSE]

\* mutant: the purge does not look at skip_existing
get_all_links_always_clears(r, dbs) ==
    /\ thread[r].pc = "get_links"
    /\ \E db_ok \in dbs :
       LET t == thread[r] IN
       thread' = [thread EXCEPT ![r] =
          IF db_ok
          THEN [Goto(t, "clear") EXCEPT
                   !.links = [n \in 1..Len(amazon_links) |->
                                 [url |-> amazon_links[n].url,
                                  asin |-> amazon_links[n].asin]]]
          ELSE RunError(t)]
    /\ UNCHANGED <<processing_status, amazon_links, amazon_reviews>>

\* line 22
get_all_links(r, dbs) ==
    /\ thread[r].pc = "get_links"
    /\ \E db_ok \in dbs :
       LET t == thread[r] IN
       thread' = [thread EXCEPT ![r] =
          IF db_ok
          THEN [Goto(t, IF t.skip_existing THEN "loop" ELSE "clear") EXCEPT
                   !.links = [n \in 1..Len(amazon_links) |->
                                 [url |-> amazon_links[n].url,
                                  asin |-> amazon_links[n].asin]]]
          ELSE RunError(t)]
    /\ UNCHANGED <<processing_status, amazon_links, amazon_reviews>>

\* mutant: the full refresh does not delete the stored rows
clear_all_reviews_keeps_rows(r, dbs) ==
    /\ thread[r].pc = "clear"
    /\ \E db_ok \in dbs :
       thread' = [thread EXCEPT ![r] =
          IF db_ok THEN [Goto(thread[r], "loop") EXCEPT !.purged = Keys(amazon_reviews)]
          ELSE RunError(thread[r])]
    /\ UNCHANGED <<processing_status, amazon_links, amazon_reviews>>

\* lines 26-29 with DatabaseManager.clear_all_reviews
clear_all_reviews(r, dbs) ==
    /\ thread[r].pc = "clear"
    /\ \E db_ok \in dbs :
       IF db_ok
       THEN /\ amazon_reviews' = EmptyBag
            /\ thread' = [thread EXCEPT ![r] =
                   [Goto(thread[r], "loop") EXCEPT
                       !.purged = Keys(amazon_reviews)]]
       ELSE /\ thread' = [thread EXCEPT ![r] = RunError(thread[r])]
            /\ UNCHANGED amazon_reviews
    /\ UNCHANGED <<processing_status, amazon_links>>

\* mutant: a skipped link is counted as processed
NextLink_counts_processed(r, dbs) ==
    /\ thread[r].pc = "loop"
    /\ \E db_ok \in dbs :
       LET t == [thread[r] EXCEPT !.deduped = FALSE] IN
       thread' = [thread EXCEPT ![r] =
          IF t.n > Len(t.links)
          THEN [Goto(t, "returned") EXCEPT
                   !.final = [u \in Urls |-> ReviewCount(amazon_reviews, u)]]
          ELSE IF ~t.skip_existing THEN Goto(t, "metadata")
          ELSE IF ~db_ok THEN LinkError(t)
          ELSE IF HasReviews(amazon_reviews, t.links[t.n].url)
               THEN EndOfLink([t EXCEPT !.processed = t.processed + 1])
          ELSE Goto(t, "metadata")]
    /\ UNCHANGED <<processing_status, amazon_links, amazon_reviews>>

\* mutant: the loop reads the registry again at every link
NextLink_rereads_registry(r, dbs) ==
    /\ thread[r].pc = "loop"
    /\ \E db_ok \in dbs :
       LET t == [thread[r] EXCEPT !.deduped = FALSE,
                                  !.links = [n \in 1..Len(amazon_links) |->
                                                [url |-> amazon_links[n].url,
                                                 asin |-> amazon_links[n].asin]]] IN
       thread' = [thread EXCEPT ![r] =
          IF t.n > Len(t.links)
          THEN [Goto(t, "returned") EXCEPT
                   !.final = [u \in Urls |-> ReviewCount(amazon_reviews, u)]]
          ELSE IF ~t.skip_existing THEN Goto(t, "metadata")
          ELSE IF ~db_ok THEN LinkError(t)
          ELSE IF HasReviews(amazon_reviews, t.links[t.n].url)
               THEN EndOfLink([t EXCEPT !.skipped = t.skipped + 1])
          ELSE Goto(t, "metadata")]
    /\ UNCHANGED <<processing_status, amazon_links, amazon_reviews>>

\* lines 35-51: the next link, and the skip decision; lines 100-106 after the last
NextLink(r, dbs) ==
    /\ thread[r].pc = "loop"
    /\ \E db_ok \in dbs :
       LET t == [thread[r] EXCEPT !.deduped = FALSE] IN
       thread' = [thread EXCEPT ![r] =
          IF t.n > Len(t.links)
          THEN [Goto(t, "returned") EXCEPT
                   !.final = [u \in Urls |-> ReviewCount(amazon_reviews, u)]]
          ELSE IF ~t.skip_existing THEN Goto(t, "metadata")
          ELSE IF ~db_ok THEN LinkError(t)
          ELSE IF HasReviews(amazon_reviews, t.links[t.n].url)
               THEN EndOfLink([t EXCEPT !.skipped = t.skipped + 1])
          ELSE Goto(t, "metadata")]
    /\ UNCHANGED <<processing_status, amazon_links, amazon_reviews>>

\* mutant: a link without metadata is given up as an error
FetchMetadata_abandons_link(r, pages, dbs) ==
    /\ thread[r].pc = "metadata"
    /\ \E page \in pages, db_ok \in dbs :
       LET t    == thread[r]
           url  == t.links[t.n].url
           meta == get_product_metadata(page)
           t1   == [t EXCEPT !.fetched = t.fetched \cup {url},
                             !.product_name = meta.title,
                             !.price = meta.price,
                             !.avg_star_rating = meta.avg_rating]
       IN  IF Falsy(meta.title)
           THEN /\ thread' = [thread EXCEPT ![r] = LinkError(t1)]
                /\ UNCHANGED amazon_links
           ELSE IF db_ok
           THEN /\ amazon_links' =
                       update_product_metadata_for_url(amazon_links, url, meta.title)
                /\ thread' = [thread EXCEPT ![r] = Goto(t1, "reviews")]
           ELSE /\ thread' = [thread EXCEPT ![r] = LinkError(t1)]
                /\ UNCHANGED amazon_links
    /\ UNCHANGED <<processing_status, amazon_reviews>>

\* lines 54-68: get_product_metadata, then the product name goes to amazon_links
FetchMetadata(r, pages, dbs) ==
    /\ thread[r].pc = "metadata"
    /\ \E page \in pages, db_ok \in dbs :
       LET t    == thread[r]
           url  == t.links[t.n].url
           meta == get_product_metadata(page)
           t1   == [t EXCEPT !.fetched = t.fetched \cup {url},
                             !.product_name = meta.title,
                             !.price = meta.price,
                             !.avg_star_rating = meta.avg_rating]
       IN  IF Falsy(meta.title)
           THEN /\ thread' = [thread EXCEPT ![r] = Goto(t1, "reviews")]
                /\ UNCHANGED amazon_links
           ELSE IF db_ok
           THEN /\ amazon_links' =
                       update_product_metadata_for_url(amazon_links, url, meta.title)
                /\ thread' = [thread EXCEPT ![r] = Goto(t1, "reviews")]
           ELSE /\ thread' = [thread EXCEPT ![r] = LinkError(t1)]
                /\ UNCHANGED amazon_links
    /\ UNCHANGED <<processing_status, amazon_reviews>>

\* mutant: the link is counted as processed before its reviews are inserted
FetchReviews_counts_early(r, results) ==
    /\ thread[r].pc = "reviews"
    /\ \E result \in results :
       LET t    == thread[r]
           url  == t.links[t.n].url
           revs == get_reviews(result)
           t1   == [t EXCEPT !.fetched = t.fetched \cup {url},
                             !.yielded = t.yielded \cup
                                 {<<url, revs[m].review_text>> : m \in 1..Len(revs)}]
       IN  thread' = [thread EXCEPT ![r] =
              IF revs = <<>> THEN EndOfLink(t1)
              ELSE [Goto(t1, "insert_select") EXCEPT !.review_snippets = revs, !.k = 1,
                                                      !.processed = t.processed + 1]]
    /\ UNCHANGED <<processing_status, amazon_links, amazon_reviews>>

\* the reviews of a list that carry a date
RECURSIVE Dated(_)
Dated(revs) ==
    IF revs = <<>> THEN <<>>
    ELSE IF Head(revs).review_date = NULL THEN Dated(Tail(revs))
    ELSE <<Head(revs)>> \o Dated(Tail(revs))

\* mutant: a date filter that drops the reviews without a date
FetchReviews_drops_undated(r, results) ==
    /\ thread[r].pc = "reviews"
    /\ \E result \in results :
       LET t    == thread[r]
           url  == t.links[t.n].url
           revs == get_reviews(result)
           t1   == [t EXCEPT !.fetched = t.fetched \cup {url},
                             !.yielded = t.yielded \cup
                                 {<<url, revs[m].review_text>> : m \in 1..Len(revs)}]
       IN  thread' = [thread EXCEPT ![r] =
              IF Dated(revs) = <<>> THEN EndOfLink(t1)
              ELSE [Goto(t1, "insert_select") EXCEPT !.review_snippets = Dated(revs), !.k = 1]]
    /\ UNCHANGED <<processing_status, amazon_links, amazon_reviews>>

\* lines 71-74: get_reviews; an empty list ends the link
FetchReviews(r, results) ==
    /\ thread[r].pc = "reviews"
    /\ \E result \in results :
       LET t    == thread[r]
           url  == t.links[t.n].url
           revs == get_reviews(result)
           t1   == [t EXCEPT !.fetched = t.fetched \cup {url},
                             !.yielded = t.yielded \cup
                                 {<<url, revs[m].review_text>> : m \in 1..Len(revs)}]
       IN  thread' = [thread EXCEPT ![r] =
              IF revs = <<>> THEN EndOfLink(t1)
              ELSE [Goto(t1, "insert_select") EXCEPT !.review_snippets = revs, !.k = 1]]
    /\ UNCHANGED <<processing_status, amazon_links, amazon_reviews>>

\* lines 76-94: after insert_review_row returns: the next snippet, or the link is done
AfterInsert(t) ==
    IF t.k < Len(t.review_snippets)
    THEN [Goto(t, "insert_select") EXCEPT !.k = t.k + 1]
    ELSE EndOfLink([t EXCEPT !.processed = t.processed + 1])

\* mutant: insert_review_row without the dedupe SELECT
insert_review_row_select_no_dedupe(r, dbs) ==
    /\ thread[r].pc = "insert_select"
    /\ \E db_ok \in dbs :
       LET t    == thread[r]
           url  == t.links[t.n].url
           text == t.review_snippets[t.k].review_text
       IN  thread' = [thread EXCEPT ![r] =
              IF Falsy(url) \/ Falsy(text) THEN AfterInsert(t)
              ELSE IF ~db_ok THEN LinkError(t)
              ELSE Goto(t, "insert_row")]
    /\ UNCHANGED <<processing_status, amazon_links, amazon_reviews>>

\* mutant: a stored key makes the call fail, as a unique constraint would
insert_review_row_select_duplicate_raises(r, dbs) ==
    /\ thread[r].pc = "insert_select"
    /\ \E db_ok \in dbs :
       LET t    == thread[r]
           url  == t.links[t.n].url
           text == t.review_snippets[t.k].review_text
       IN  thread' = [thread EXCEPT ![r] =
              IF Falsy(url) \/ Falsy(text) THEN AfterInsert(t)
              ELSE IF ~db_ok THEN LinkError(t)
              ELSE IF ReviewExists(amazon_reviews, url, text)
                   THEN [LinkError(t) EXCEPT !.deduped = TRUE]
              ELSE Goto(t, "insert_row")]
    /\ UNCHANGED <<processing_status, amazon_links, amazon_reviews>>

\* insert_review_row, db_manager.py lines 150-163: the guard and the dedupe SELECT
insert_review_row_select(r, dbs) ==
    /\ thread[r].pc = "insert_select"
    /\ \E db_ok \in dbs :
       LET t    == thread[r]
           url  == t.links[t.n].url
           text == t.review_snippets[t.k].review_text
       IN  thread' = [thread EXCEPT ![r] =
              IF Falsy(url) \/ Falsy(text) THEN AfterInsert(t)
              ELSE IF ~db_ok THEN LinkError(t)
              ELSE IF ReviewExists(amazon_reviews, url, text)
                   THEN [AfterInsert(t) EXCEPT !.deduped = TRUE]
              ELSE Goto(t, "insert_row")]
    /\ UNCHANGED <<processing_status, amazon_links, amazon_reviews>>

\* insert_review_row, db_manager.py lines 165-192: the INSERT
insert_review_row_insert(r, dbs) ==
    /\ thread[r].pc = "insert_row"
    /\ \E db_ok \in dbs :
       LET t    == thread[r]
           link == t.links[t.n]
       IN  IF db_ok
           THEN /\ amazon_reviews' = amazon_reviews (+) SetToBag(
                       {ReviewRow(link.asin, link.url, t.product_name, t.price,
                                  t.avg_star_rating, t.review_snippets[t.k])})
                /\ thread' = [thread EXCEPT ![r] = AfterInsert(t)]
           ELSE /\ thread' = [thread EXCEPT ![r] = LinkError(t)]
                /\ UNCHANGED amazon_reviews
    /\ UNCHANGED <<processing_status, amazon_links>>

\* ------------------------------------------------------------------- Next
\* bodies of POST /api/links: no URL, a URL without ASIN, one link, two links
LinkBodies == {<<>>, <<BadUrl>>, <<"A">>, <<"A", "B">>}

Healthy == {TRUE}       \* every statement goes through
Failing == BOOLEAN      \* any statement may raise

\* one statement of thread r; the providers answer from the given sets and the
\* statements of run() end as dbs allows (DatabaseManager(), which connects,
\* may always raise)
Step(r, pages, results, dbs) ==
    \/ run_pipeline_start(r)
    \/ ETLPipeline_init(r, Failing)
    \/ get_all_links(r, dbs)
    \/ clear_all_reviews(r, dbs)
    \/ NextLink(r, dbs)
    \/ FetchMetadata(r, pages, dbs)
    \/ FetchReviews(r, results)
    \/ insert_review_row_select(r, dbs)
    \/ insert_review_row_insert(r, dbs)
    \/ run_pipeline_success(r)
    \/ run_pipeline_except(r)
    \/ run_pipeline_finally(r)

RequestsOf(bodies, types, dbs) ==
    \E urls \in bodies, product_type \in types \cup {NULL}, db_ok \in dbs :
       add_links(urls, product_type, db_ok)

Requests(dbs) == RequestsOf(LinkBodies, ProductTypes, dbs)

\* Every interleaving of requests and threads, on a database that does not
\* fail once a run has connected.  The providers answer with at most one snippet.
OneSnippet == {res \in SerpResults : Len(res.organic_results) <= 1}

Next ==
    \/ Requests(Healthy)
    \/ \E skip \in BOOLEAN : process_links(skip)
    \/ \E r \in Runs : Step(r, MetaPages, OneSnippet, Healthy)

Spec == Init /\ [][Next]_vars

\* The client sends POST /process only when no accepted thread is still waiting
\* for its first statement, so runs never overlap.  The database does not fail
\* once a run has connected, and the providers answer with up to MaxItems
\* organic results.
SerialNext ==
    \/ Requests(Healthy)
    \/ /\ \A r \in Runs : thread[r].pc # "spawned"
       /\ \E skip \in BOOLEAN : process_links(skip)
    \/ \E r \in Runs : Step(r, MetaPages, SerpResults, Healthy)

SerialSpec == Init /\ [][SerialNext]_vars

\* One POST /process is accepted, and any statement of its run may raise.
FaultNext ==
    \/ Requests(Failing)
    \/ /\ thread[1].pc = "idle" \/ processing_status["is_processing"]
       /\ \E skip \in BOOLEAN : process_links(skip)
    \/ \E r \in Runs : Step(r, MetaPages, SerpResults, Failing)

FaultSpec == Init /\ [][FaultNext]_vars

\* The registry holds two URLs of one product (A and A2) beside B, and links
\* are submitted again under another product_type.  One POST /process is
\* accepted, the database does not fail once the run has connected, and the
\* providers answer with at most one snippet.
RegistryBodies == {<<>>, <<BadUrl>>, <<"A">>, <<"B", "A", "A2">>}

RegistryNext ==
    \/ RequestsOf(RegistryBodies, Categories, Healthy)
    \/ /\ thread[1].pc = "idle" \/ processing_status["is_processing"]
       /\ \E skip \in BOOLEAN : process_links(skip)
    \/ \E r \in Runs : Step(r, MetaPages, OneSnippet, Healthy)

RegistrySpec == Init /\ [][RegistryNext]_vars

\* Runs that do not overlap, over a database on which any statement may
\* raise: a run finds the rows that the runs before it have stored.  The
\* providers answer with at most one snippet.
RerunFaultNext ==
    \/ Requests(Failing)
    \/ /\ \A r \in Runs : thread[r].pc # "spawned"
       /\ \E skip \in BOOLEAN : process_links(skip)
    \/ \E r \in Runs : Step(r, MetaPages, OneSnippet, Failing)

RerunFaultSpec == Init /\ [][RerunFaultNext]_vars

\* the operating system schedules every started thread again and again
FairFaultSpec == FaultSpec /\ \A r \in Runs : WF_vars(Step(r, MetaPages, SerpResults, Failing))

\* ================================================================ claims
\* positions of a thread inside ETLPipeline.run
RunPcs == {"get_links", "clear", "loop", "metadata", "reviews", "insert_select", "insert_row"}

\* positions of a thread inside the try block of one link
LinkPcs == {"loop", "metadata", "reviews", "insert_select", "insert_row"}

\* thread r has taken a step of the loop
Stepped(r) == thread'[r].pc # thread[r].pc \/ thread'[r].n # thread[r].n

\* the link thread r is at
AtLink(r) == thread[r].n <= Len(thread[r].links)
Url(r) == thread[r].links[thread[r].n].url

\* no (product_url, review_text) pair is stored twice
UniqueKeys(table) ==
    /\ \A row \in BagToSet(table) : table[row] = 1
    /\ \A x, y \in BagToSet(table) :
          x.product_url = y.product_url /\ x.review_text = y.review_text => x = y

\* C1: at most one thread is inside ETLPipeline.run at any time.
C1_OneRunAtATime == Cardinality({r \in Runs : thread[r].pc \in RunPcs}) <= 1

\* C2: while an accepted run has not released the register, POST /process is
\* answered 409, also right after the accepting request has returned.
C2_SecondRejected == (\E r \in Runs : Active(r)) => process_links_status = 409

\* C3: every accepted run ends with is_processing = false, whether
\* ETLPipeline() or run() returns or raises.
C3_Released ==
    \A r \in Runs :
        (thread[r].pc = "spawned") ~>
            (thread[r].pc = "done" /\ ~processing_status["is_processing"])

C3_Witness ==
    \E r \in Runs : /\ thread[r].pc = "done"
                    /\ thread[r].raised
                    /\ ~processing_status["is_processing"]

\* C4: no two rows of amazon_reviews have the same (product_url, review_text).
C4_NoDuplicateKey == UniqueKeys(amazon_reviews)

\* two runs one after the other, both over the same links and provider answers
SameInputs(r1, r2) ==
    /\ r2 = r1 + 1
    /\ thread[r1].pc = "done"
    /\ thread[r2].pc = "returned"
    /\ ~thread[r1].overlapped /\ ~thread[r2].overlapped
    /\ ~thread[r1].raised
    /\ thread[r1].links = thread[r2].links
    /\ thread[r1].yielded = thread[r2].yielded

\* C5: two full refreshes in sequence over the same links and the same
\* provider answers leave the same number of rows for every product, and no
\* (url, text) pair twice.
C5_NotDoubled ==
    \A r1, r2 \in Runs :
        SameInputs(r1, r2) /\ ~thread[r1].skip_existing /\ ~thread[r2].skip_existing
        => /\ thread[r2].final = thread[r1].final
           /\ UniqueKeys(amazon_reviews)

C5_Witness ==
    \E r1, r2 \in Runs :
        /\ SameInputs(r1, r2) /\ ~thread[r1].skip_existing /\ ~thread[r2].skip_existing
        /\ \E u \in Urls : thread[r2].final[u] = 2

\* C6: when a full refresh returns, amazon_reviews holds exactly the distinct
\* (url, text) pairs the providers answered in this run, each once, whatever
\* was stored before.
C6_FullRefresh ==
    \A r \in Runs :
        thread[r].pc = "returned" /\ ~thread[r].skip_existing /\ ~thread[r].overlapped
        => /\ Keys(amazon_reviews) = thread[r].yielded
           /\ BagCardinality(amazon_reviews) = Cardinality(thread[r].yielded)

C6_Witness ==
    \E r \in Runs :
        /\ thread[r].pc = "returned" /\ ~thread[r].skip_existing /\ ~thread[r].overlapped
        /\ thread[r].yielded # {}
        /\ \E key \in thread[r].purged : key \notin thread[r].yielded

\* C7: when a skip_existing run reaches a link whose URL has a row, and the
\* SELECT goes through, the step calls no provider, leaves amazon_reviews as it
\* is and adds one to skipped (and nothing to processed or errors).
C7_SkipFrame ==
    [][\A r \in Runs :
          ( /\ thread[r].pc = "loop" /\ AtLink(r) /\ Stepped(r)
            /\ thread[r].skip_existing
            /\ HasReviews(amazon_reviews, Url(r))
            /\ ~thread'[r].exc )
          => /\ thread'[r].skipped = thread[r].skipped + 1
             /\ thread'[r].processed = thread[r].processed
             /\ thread'[r].errors = thread[r].errors
             /\ thread'[r].fetched = thread[r].fetched
             /\ Url(r) \notin thread'[r].fetched
             /\ amazon_reviews' = amazon_reviews
             /\ thread'[r].pc = "loop" /\ thread'[r].n = thread[r].n + 1]_vars

C7_Witness ==
    \E r \in Runs : /\ thread[r].pc = "loop" /\ thread[r].skipped = 1
                    /\ thread[r].fetched = {}
                    /\ amazon_reviews # EmptyBag

\* C8: a skip_existing run right after a run that handled every link without
\* error returns processed = 0 and skipped = the number of links.
C8_RerunSkipsAll ==
    \A r1, r2 \in Runs :
        ( /\ r2 = r1 + 1
          /\ thread[r1].pc = "done" /\ ~thread[r1].raised /\ thread[r1].errors = 0
          /\ thread[r2].pc = "returned" /\ thread[r2].skip_existing
          /\ ~thread[r1].overlapped /\ ~thread[r2].overlapped
          /\ thread[r2].links = thread[r1].links )
        => /\ thread[r2].processed = 0
           /\ thread[r2].skipped = Len(thread[r2].links)

\* C9: a link whose provider answer is empty adds one to processed and nothing
\* to errors.
C9_EmptyIsProcessed ==
    [][\A r \in Runs :
          thread[r].pc = "reviews" /\ thread'[r].pc = "loop"
          => /\ thread'[r].processed = thread[r].processed + 1
             /\ thread'[r].errors = thread[r].errors]_vars

\* C10: a statement that raises inside the try block of a link adds one to
\* errors and the loop goes on with the next link of the list read at the
\* start; run() is never left by such an exception and returns after the last
\* link.
C10_ErrorIsolated ==
    /\ [][\A r \in Runs :
            thread[r].pc \in LinkPcs /\ AtLink(r) /\ thread'[r].exc
            => /\ thread'[r].errors = thread[r].errors + 1
               /\ thread'[r].processed = thread[r].processed
               /\ thread'[r].skipped = thread[r].skipped
               /\ thread'[r].pc = "loop"
               /\ thread'[r].n = thread[r].n + 1
               /\ thread'[r].links = thread[r].links]_vars
    /\ [](\A r \in Runs :
            /\ thread[r].pc = "except" => thread[r].errors = 0
            /\ thread[r].pc = "returned" =>
                  /\ thread[r].n = Len(thread[r].links) + 1
                  /\ ~thread[r].raised)

C10_Witness ==
    \E r \in Runs : /\ thread[r].pc = "insert_row" /\ thread[r].n = 2
                    /\ thread[r].errors = 1

\* C12: every review a run fetches goes to insert_review_row whether or not the
\* product was extracted before, and review_date is null on all of them: when a
\* run returns, each (url, text) the provider answered in it is stored.
C12_UndatedStored ==
    \A r \in Runs :
        thread[r].pc = "returned" /\ ~thread[r].overlapped
        => /\ thread[r].yielded \subseteq Keys(amazon_reviews)
           /\ \A row \in BagToSet(amazon_reviews) : row.review_date = NULL

\* a product extracted by an earlier run (which found nothing) is fetched again
\* and its undated reviews are stored
C12_Witness ==
    \E r1, r2 \in Runs :
        /\ r2 = r1 + 1
        /\ thread[r1].pc = "done" /\ ~thread[r1].raised /\ thread[r1].errors = 0
        /\ thread[r1].links # <<>> /\ thread[r1].yielded = {}
        /\ thread[r2].pc = "returned" /\ thread[r2].skip_existing
        /\ thread[r2].links = thread[r1].links
        /\ thread[r2].yielded # {}
        /\ thread[r2].yielded \subseteq Keys(amazon_reviews)

\* what the two tables of ensure_tables_exist can tell about an earlier
\* extraction of url (there is no table of cursors): a row of amazon_reviews
\* for it, or the product name that line 68 of run() stores in amazon_links
ExtractionRecorded(url) ==
    \/ HasReviews(amazon_reviews, url)
    \/ \E n \in 1..Len(amazon_links) :
          amazon_links[n].url = url /\ amazon_links[n].product_name # NULL

\* C13: when a run returns without error, the database holds a record of
\* extraction for every link the run went through, also for a link whose
\* provider answer was empty.
C13_CursorWritten ==
    \A r \in Runs :
        thread[r].pc = "returned" /\ ~thread[r].overlapped /\ thread[r].errors = 0
        => \A n \in 1..Len(thread[r].links) : ExtractionRecorded(thread[r].links[n].url)

\* number of links with at least one row of amazon_reviews for their URL
LinksWithReviews ==
    Cardinality({n \in 1..Len(amazon_links) :
                    HasReviews(amazon_reviews, amazon_links[n].url)})

\* C14: with n links of which k have a review row for their URL, the stats are
\* total_links = n, processed = k and pending = n - k, also when two URLs
\* carry the same ASIN.
C14_StatsAddUp ==
    LET stats == get_processing_stats(amazon_links, amazon_reviews)
    IN  /\ stats.total_links = Len(amazon_links)
        /\ stats.processed_asins = LinksWithReviews
        /\ stats.pending_asins = Len(amazon_links) - LinksWithReviews

\* the links with at least one row of amazon_reviews for their URL
WithReviews == {n \in 1..Len(amazon_links) : HasReviews(amazon_reviews, amazon_links[n].url)}

\* C14 as amended: total_links = n, pending = n - k, and processed is the
\* number of distinct ASINs of the links that have review rows (k when those
\* ASINs differ).
C14_StatsByProduct ==
    LET stats == get_processing_stats(amazon_links, amazon_reviews)
    IN  /\ stats.total_links = Len(amazon_links)
        /\ stats.pending_asins = Len(amazon_links) - Cardinality(WithReviews)
        /\ stats.processed_asins = Cardinality({amazon_links[n].asin : n \in WithReviews})
        /\ stats.total_reviews = BagCardinality(amazon_reviews)

\* three links, two of them URLs of one product and both with review rows
C14_Witness ==
    /\ Len(amazon_links) = 3
    /\ Cardinality(WithReviews) = 2
    /\ \E n, m \in WithReviews : n # m /\ amazon_links[n].asin = amazon_links[m].asin
    /\ get_processing_stats(amazon_links, amazon_reviews).processed_asins = 1

\* the counts a status message carries: run_pipeline writes the fixed texts of
\* lines 77 and 82 or "Error: " + str(e), and none is built from what run() returns
CountsIn(message) == <<>>

\* C15: when a run has ended, the message is the exception text if the run
\* raised, and else a summary that carries the run's processed, skipped and
\* errors counts.
C15_MessageHasCounts ==
    \A r \in Runs :
        thread[r].pc = "finally" /\ ~thread[r].overlapped
        => IF thread[r].raised
           THEN processing_status["message"] = "Error"
           ELSE CountsIn(processing_status["message"]) =
                    <<thread[r].processed, thread[r].skipped, thread[r].errors>>

\* C16: a statement of the database that raises during a run, inside the loop
\* over the links as well, ends the run: run() is left for the handler of
\* run_pipeline, which stores the exception text and releases the register.
C16_StoreFailureFatal ==
    /\ [][\A r \in Runs :
            thread[r].pc \in RunPcs /\ Stepped(r) /\ thread'[r].exc
            => thread'[r].pc = "except" /\ thread'[r].raised]_vars
    /\ [](\A r \in Runs :
            thread[r].pc = "finally" /\ thread[r].raised
            => processing_status["message"] = "Error")

\* the provider calls that throw or time out
PageThrows == {page \in MetaPages : page.kind = "exception"}
SearchThrows == {result \in SerpResults : result.kind = "exception"}

\* C17: a metadata fetch or review fetch that throws at the provider adds one
\* to errors for the link and the run goes on with the next link.
C17_ProviderFailureCounted ==
    [][\A r \in Runs :
          (FetchMetadata(r, PageThrows, Healthy) \/ FetchReviews(r, SearchThrows))
          => /\ thread'[r].errors = thread[r].errors + 1
             /\ thread'[r].pc = "loop"
             /\ thread'[r].n = thread[r].n + 1]_vars

\* the product page requests that give no metadata
NoMetadata == {page \in MetaPages : page.kind # "ok"}

\* C18: when the metadata fetch fails or gives all-null fields, amazon_links is
\* left as it is and the next step of the link is the review fetch; the
\* reviews of the link are then stored with null product_name, price and
\* avg_star_rating.
C18_NullMetadataGoesOn ==
    [][\A r \in Runs :
          /\ FetchMetadata(r, NoMetadata, Healthy)
             => /\ thread'[r].pc = "reviews"
                /\ thread'[r].n = thread[r].n
                /\ thread'[r].errors = thread[r].errors
                /\ thread'[r].product_name = NULL
                /\ thread'[r].price = NULL
                /\ thread'[r].avg_star_rating = NULL
                /\ amazon_links' = amazon_links
          /\ ( /\ thread[r].pc = "insert_row" /\ Stepped(r) /\ ~thread'[r].exc
               /\ thread[r].product_name = NULL )
             => \E row \in BagToSet(amazon_reviews') :
                   /\ CopiesIn(row, amazon_reviews') = CopiesIn(row, amazon_reviews) + 1
                   /\ row.product_url = Url(r)
                   /\ row.review_text = thread[r].review_snippets[thread[r].k].review_text
                   /\ row.product_name = NULL
                   /\ row.price = NULL
                   /\ row.avg_star_rating = NULL]_vars

\* a link whose name an earlier fetch has stored, and a review of it stored
\* later without metadata
C18_Witness ==
    \E n \in 1..Len(amazon_links) :
        /\ amazon_links[n].product_name # NULL
        /\ \E row \in BagToSet(amazon_reviews) :
              /\ row.product_url = amazon_links[n].url
              /\ row.product_name = NULL /\ row.price = NULL
              /\ row.avg_star_rating = NULL

\* the answers of the review search in which some organic result has no snippet
Textless ==
    {result \in SerpResults :
        /\ result.kind = "ok"
        /\ \E m \in 1..Len(result.organic_results) :
              Falsy(result.organic_results[m].snippet)}

\* C19: no row of amazon_reviews has a missing or empty review_text; a fetched
\* review without text adds nothing to errors, the reviews of the same answer
\* that have text go to insert_review_row, and the link is counted as processed.
C19_TextlessSkipped ==
    /\ [](\A row \in BagToSet(amazon_reviews) : ~Falsy(row.review_text))
    /\ [][\A r \in Runs : \A result \in Textless :
            FetchReviews(r, {result})
            => /\ thread'[r].errors = thread[r].errors
               /\ \/ /\ thread'[r].pc = "insert_select"
                     /\ thread'[r].review_snippets = get_reviews(result)
                     /\ thread'[r].processed = thread[r].processed
                  \/ /\ thread'[r].pc = "loop"
                     /\ thread'[r].processed = thread[r].processed + 1]_vars

\* the URLs of a request body that hold an ASIN
Accepted(urls) == {urls[m] : m \in {q \in 1..Len(urls) : ~Falsy(extract_asin_from_url(urls[q]))}}

RegisteredUrls == {amazon_links[n].url : n \in 1..Len(amazon_links)}

\* C20: no two rows of amazon_links have the same url, and a POST /api/links
\* adds one row per new URL and none for a registered one, whose product_type
\* and asin become the submitted ones while its product_name stays.
C20_UrlUnique ==
    /\ [](\A n, m \in 1..Len(amazon_links) :
             amazon_links[n].url = amazon_links[m].url => n = m)
    /\ [][\A urls \in RegistryBodies, product_type \in Categories :
            add_links(urls, product_type, TRUE)
            => /\ Len(amazon_links') =
                     Len(amazon_links) + Cardinality(Accepted(urls) \ RegisteredUrls)
               /\ \A n \in 1..Len(amazon_links) :
                     /\ amazon_links'[n].url = amazon_links[n].url
                     /\ amazon_links'[n].product_name = amazon_links[n].product_name
                     /\ IF amazon_links[n].url \in Accepted(urls)
                        THEN /\ amazon_links'[n].product_type = product_type
                             /\ amazon_links'[n].asin =
                                    extract_asin_from_url(amazon_links[n].url)
                        ELSE amazon_links'[n] = amazon_links[n]]_vars

\* A was registered by the body <<B, A, A2>> (it follows B), has got its name
\* from a run, and a later POST of A has changed its product_type
C20_Witness ==
    /\ Len(amazon_links) = 3
    /\ amazon_links[1].url = "B" /\ amazon_links[2].url = "A"
    /\ amazon_links[2].product_type # amazon_links[1].product_type
    /\ amazon_links[2].product_name # NULL

\* the review thread r is about to hand to insert_review_row
Text(r) == thread[r].review_snippets[thread[r].k].review_text

\* C21: insert_review_row for a (product_url, review_text) that is stored
\* leaves amazon_reviews as it is, sends no INSERT and raises nothing: errors
\* is unchanged and the loop goes on with the next review, or ends the link as
\* processed.
C21_DuplicateNoOp ==
    [][\A r \in Runs :
          ( /\ thread[r].pc = "insert_select" /\ thread'[r] # thread[r]
            /\ ReviewExists(amazon_reviews, Url(r), Text(r)) )
          => /\ amazon_reviews' = amazon_reviews
             /\ ~thread'[r].exc
             /\ thread'[r].errors = thread[r].errors
             /\ thread'[r].deduped
             /\ IF thread[r].k < Len(thread[r].review_snippets)
                THEN /\ thread'[r].pc = "insert_select"
                     /\ thread'[r].k = thread[r].k + 1
                     /\ thread'[r].n = thread[r].n
                ELSE /\ thread'[r].pc = "loop"
                     /\ thread'[r].n = thread[r].n + 1
                     /\ thread'[r].processed = thread[r].processed + 1]_vars

\* the last review of a link was a stored key: the link has ended as processed,
\* without error, and the key is stored once
C21_Witness ==
    \E r \in Runs :
        /\ thread[r].pc = "loop" /\ thread[r].deduped
        /\ thread[r].errors = 0 /\ thread[r].processed = 1
        /\ thread[r].yielded # {}
        /\ UniqueKeys(amazon_reviews)

\* C22: from the moment POST /process is accepted until the run has released
\* the register, is_processing is true.
C22_BusyFromAccept ==
    \A r \in Runs : Active(r) => processing_status["is_processing"] = TRUE

\* links handled so far, as run() counts them
Counted(t) == t.processed + t.skipped + t.errors

\* C23: the list a run works on is amazon_links, in id order, as it is when
\* get_all_links runs; from then on the list does not change whatever is
\* submitted, the run moves through it one link at a time, calls the providers
\* for the link at hand only and counts at most one per link, and it returns
\* after the last link of the list.
C23_SnapshotAtStart ==
    /\ [][\A r \in Runs :
            thread[r].pc = "get_links" /\ thread'[r].pc \in {"loop", "clear"}
            => thread'[r].links = [n \in 1..Len(amazon_links) |->
                                      [url |-> amazon_links[n].url,
                                       asin |-> amazon_links[n].asin]]]_vars
    /\ [][\A r \in Runs :
            thread[r].pc \in LinkPcs \cup {"clear"}
            => /\ thread'[r].links = thread[r].links
               /\ thread'[r].n \in {thread[r].n, thread[r].n + 1}
               /\ thread'[r].fetched \subseteq
                     thread[r].fetched \cup (IF AtLink(r) THEN {Url(r)} ELSE {})
               /\ Counted(thread'[r]) - Counted(thread[r])
                     \in {0, thread'[r].n - thread[r].n}]_vars
    /\ [](\A r \in Runs :
            thread[r].pc = "returned"
            => /\ thread[r].n = Len(thread[r].links) + 1
               /\ thread[r].fetched \subseteq
                     {thread[r].links[m].url : m \in 1..Len(thread[r].links)})

\* a link was submitted while the run was in its loop: the run has returned
\* having fetched the one link of its list
C23_Witness ==
    \E r \in Runs :
        /\ thread[r].pc = "returned"
        /\ Len(thread[r].links) = 1 /\ Len(amazon_links) = 2
        /\ thread[r].fetched = {thread[r].links[1].url}

\* C24: no statement of a run with skip_existing = true deletes or changes a
\* row of amazon_reviews: every row stored before the statement is stored after
\* it, whatever the providers answer and whichever statement raises.
C24_SkipRunKeepsRows ==
    [][\A r \in Runs :
          ( /\ thread[r].skip_existing
            /\ thread[r].pc \in RunPcs
            /\ thread'[r] # thread[r] )
          => amazon_reviews \sqsubseteq amazon_reviews']_vars

\* a skip_existing run has gone through its links, one of which failed, and
\* the rows stored before it (the run itself got no review) are still there
C24_Witness ==
    \E r \in Runs :
        /\ thread[r].pc = "returned" /\ thread[r].skip_existing
        /\ thread[r].errors >= 1
        /\ thread[r].yielded = {}
        /\ amazon_reviews # EmptyBag

\* C25: the links a run has counted in processed, skipped and errors are never
\* more than the links of its list it has finished, so when run() returns the
\* three counts add up to at most the length of the list; no statement adds
\* to two of the counts.
C25_CountsBounded ==
    /\ [](\A r \in Runs :
            thread[r].pc \in LinkPcs \cup {"returned"}
            => /\ Counted(thread[r]) <= thread[r].n - 1
               /\ Counted(thread[r]) <= Len(thread[r].links))
    /\ [][\A r \in Runs :
            thread[r].pc \in LinkPcs
            => /\ thread'[r].processed \in {thread[r].processed, thread[r].processed + 1}
               /\ thread'[r].skipped \in {thread[r].skipped, thread[r].skipped + 1}
               /\ thread'[r].errors \in {thread[r].errors, thread[r].errors + 1}
               /\ Counted(thread'[r]) <= Counted(thread[r]) + 1]_vars

\* a run over two links has returned with one link skipped and one failed
C25_Witness ==
    \E r \in Runs :
        /\ thread[r].pc = "returned" /\ Len(thread[r].links) = 2
        /\ thread[r].skipped = 1 /\ thread[r].errors = 1 /\ thread[r].processed = 0

\* C26: a POST /process that finds is_processing true is answered 409 and
\* changes neither processing_status nor amazon_links nor amazon_reviews, with
\* skip_existing = false as well, and starts no thread.
C26_RejectedChangesNothing ==
    [][\A skip \in BOOLEAN :
          processing_status["is_processing"] /\ process_links(skip)
          => /\ process_links_status = 409
             /\ processing_status' = processing_status
             /\ amazon_links' = amazon_links
             /\ amazon_reviews' = amazon_reviews
             /\ thread' = thread]_vars

\* a run is inside its loop with rows stored: a request made now is rejected,
\* and a purge would show
C26_Witness ==
    /\ processing_status["is_processing"]
    /\ process_links_status = 409
    /\ amazon_reviews # EmptyBag
    /\ \E r \in Runs : thread[r].pc \in LinkPcs /\ thread[r].skip_existing

====
